---- MODULE Spec2Model ----
(***************************************************************************)
(* QR token and attendance core of the campus attendance tracker.         *)
(*                                                                         *)
(* Two stores exist in the repository and are modelled side by side:      *)
(*   - the server's MemStorage (qrTokens, attendance), driven by the      *)
(*     HTTP routes of server/routes.ts;                                    *)
(*   - the Firestore attendance collection (fsAttendance), written        *)
(*     directly by the faculty and student clients.                        *)
(* Spec is the server; SpecClient is the clients over Firestore.          *)
(***************************************************************************)
EXTENDS Integers, Sequences, FiniteSets, Bags, TLC

\* ------------------------------------------------------------------ bounds

\* Last instant of the modelled clock (new Date() is read as `now`).
MaxTime == 2
\* Requests the server receives in one run that create something: POST
\* /api/qr-tokens, POST /api/attendance and POST /api/verify-qr together.
MaxOps == 3

\* --------------------------------------------------------- input domains

Sessions == {"A", "B"}
Students == {"s1", "s2"}
TokenStrings == {"TK_1", "TK_2"}
Faculty == {"f1", "f2"}

\* JavaScript null and undefined (a field absent from a request body).
NULL == "null"
UNDEFINED == "undefined"

\* Lifetimes a client of POST /api/qr-tokens asks for (expiresAt - now), in
\* clock instants: a token is live at the instant it is created and expired at
\* the next one.
Lifetimes == {1}

\* What a student's device sends as {latitude, longitude, geofencingStatus} in
\* the body of POST /api/verify-qr: s1 has declined location, s2 reports
\* coordinates and a status.
deviceLocation(st) ==
    IF st = "s1"
    THEN [latitude |-> UNDEFINED, longitude |-> UNDEFINED, geofencingStatus |-> UNDEFINED]
    ELSE [latitude |-> "12.9716", longitude |-> "77.5946", geofencingStatus |-> "inside"]

\* Bodies of POST /api/attendance, for any (sessionId, studentId): for s1 as a
\* self-scan (markedBy absent), for s2 as a faculty entry; and one body whose
\* status is outside the schema's enum.
AttendanceBodies ==
    { [sessionId |-> s, studentId |-> st,
       status |-> IF st = "s1" THEN "present" ELSE "absent",
       geofencingStatus |-> UNDEFINED, latitude |-> UNDEFINED,
       longitude |-> UNDEFINED,
       markedBy |-> IF st = "s1" THEN UNDEFINED ELSE "f1"] :
         s \in Sessions, st \in Students }
    \cup
    { [sessionId |-> "A", studentId |-> "s1", status |-> "late",
       geofencingStatus |-> UNDEFINED, latitude |-> UNDEFINED,
       longitude |-> UNDEFINED, markedBy |-> UNDEFINED] }

\* The rotation interval of the displayed token (setInterval(..., 2000)), in
\* clock instants: one instant of the clock is 2000 ms.
ROTATION_INTERVAL == 1

\* Bodies of POST /api/qr-tokens at time t that differ in expiresAt only:
\* expired on arrival, one rotation interval ahead, two ahead.
AnyExpiryBodies(t) ==
    { [sessionId |-> "A", token |-> "TK_1", expiresAt |-> e] :
        e \in {t, t + ROTATION_INTERVAL, t + 2 * ROTATION_INTERVAL} }

\* Bodies of POST /api/verify-qr as any client can send them: each required
\* field missing in turn, no coordinates with and without a status, and a
\* complete body.
AnyVerifyBodies ==
    LET none == [latitude |-> UNDEFINED, longitude |-> UNDEFINED,
                 geofencingStatus |-> UNDEFINED]
    IN  { [sessionId |-> "A", token |-> "TK_1", studentId |-> UNDEFINED, loc |-> none],
          [sessionId |-> UNDEFINED, token |-> "TK_1", studentId |-> "s1", loc |-> none],
          [sessionId |-> "A", token |-> UNDEFINED, studentId |-> "s1", loc |-> none],
          [sessionId |-> "A", token |-> "TK_1", studentId |-> "s1", loc |-> none],
          [sessionId |-> "A", token |-> "TK_1", studentId |-> "s1",
           loc |-> [none EXCEPT !.geofencingStatus = "inside"]],
          [sessionId |-> "A", token |-> "TK_1", studentId |-> "s2",
           loc |-> deviceLocation("s2")] }

VARIABLES
    now,          \* the wall clock read by new Date()
    qrTokens,     \* MemStorage.qrTokens, in insertion order
    tokenCount,   \* QRToken records created so far (the next randomUUID)
    attendance,   \* MemStorage.attendance, in insertion order
    reqs,         \* POST /api/verify-qr requests: a bag of {locals, position, response}
    posts,        \* POST /api/attendance requests answered so far
    fsAttendance, \* Firestore collection 'attendance', in commit order
    liveStats,    \* per faculty dashboard: LiveStats' attendanceRecords, isLoading
    isProcessing, \* student devices whose QRScanner is in processQRCode
    writes,       \* markAttendance calls whose setDoc is not yet acknowledged,
                  \* each with what its caller holds across the await (form)
    results,      \* what the clients' attempts reported (toasts), as a bag
    sessions,     \* MemStorage.sessions, in insertion order
    fsSessions,   \* Firestore collection 'sessions', by document id
    dashboard,    \* per faculty: FacultyDashboard's activeSession and its
                  \* handlers in flight
    qrGenerator,  \* per faculty: QRGenerator's interval, renderings in flight
                  \* and currentToken
    lastIssued,   \* per faculty: the latest token updateQR has generated, with
                  \* its number in the run of that generator
    uiEvents,     \* dashboard events so far (bounded by MaxOps)
    measured,     \* the latest call of calculateDistance: arguments and result
    fenced,       \* the latest call of checkGeofence: arguments and result
    classified    \* the latest classification of a scan: position and status

serverVars == <<qrTokens, tokenCount, attendance, reqs, posts>>
clientVars == <<fsAttendance, liveStats, isProcessing, writes, results>>
sessionVars == <<sessions>>
issuerVars == <<fsSessions, dashboard, qrGenerator, lastIssued, uiEvents>>
geoVars == <<measured, fenced, classified>>
auxVars == <<sessionVars, issuerVars, geoVars>>
vars == <<now, serverVars, clientVars, auxVars>>

\* Requests received so far that count against MaxOps.
received == tokenCount + posts + BagCardinality(reqs)

\* ------------------------------------------------------------ MemStorage

\* `undefined` as the result of Array.prototype.find on the token map.
NoToken == [id |-> 0, sessionId |-> UNDEFINED, token |-> UNDEFINED,
            expiresAt |-> 0, createdAt |-> 0]

Min(S) == CHOOSE x \in S : \A y \in S : x <= y

\* x ?? d
Coalesce(x, d) == IF x = UNDEFINED \/ x = NULL THEN d ELSE x

\* x || d on strings
OrElse(x, d) == IF x = UNDEFINED \/ x = NULL \/ x = "" THEN d ELSE x

\* MemStorage.getValidToken: the first record, in insertion order, with this
\* token string and expiresAt > new Date(); undefined when there is none.
getValidToken(tokens, token, t) ==
    LET hits == { i \in 1..Len(tokens) :
                    tokens[i].token = token /\ tokens[i].expiresAt > t }
    IN  IF hits = {} THEN NoToken ELSE tokens[Min(hits)]

\* Faulty variant of createQRToken: the new record replaces the earlier
\* records of its session.
createQRToken_Replacing(tokens, id, ins, t) ==
    LET Other(tk) == tk.sessionId # ins.sessionId
    IN  Append(SelectSeq(tokens, Other),
               [id |-> id, sessionId |-> ins.sessionId, token |-> ins.token,
                expiresAt |-> ins.expiresAt, createdAt |-> t])

\* MemStorage.createQRToken: {...insertQRToken, id, createdAt}, appended.
createQRToken(tokens, id, ins, t) ==
    Append(tokens, [id |-> id, sessionId |-> ins.sessionId, token |-> ins.token,
                    expiresAt |-> ins.expiresAt, createdAt |-> t])

\* Faulty variant of cleanupExpiredTokens: records that expire within the next
\* rotation interval are deleted too.
cleanupExpiredTokens_Eager(tokens, t) ==
    LET Keep(tk) == ~(tk.expiresAt <= t + ROTATION_INTERVAL) IN SelectSeq(tokens, Keep)

\* MemStorage.cleanupExpiredTokens: delete every record with expiresAt <= now.
cleanupExpiredTokens(tokens, t) ==
    LET Keep(tk) == ~(tk.expiresAt <= t) IN SelectSeq(tokens, Keep)

\* MemStorage.getAttendance: the records of one session.
getAttendance(att, sessionId) ==
    LET OfSession(rec) == rec.sessionId = sessionId IN SelectSeq(att, OfSession)

\* The Attendance object MemStorage.createAttendance builds.
newAttendance(id, ins, t) ==
    [id |-> id,
     sessionId |-> ins.sessionId,
     studentId |-> ins.studentId,
     status |-> ins.status,
     geofencingStatus |-> Coalesce(ins.geofencingStatus, "unknown"),
     latitude |-> Coalesce(ins.latitude, NULL),
     longitude |-> Coalesce(ins.longitude, NULL),
     markedBy |-> Coalesce(ins.markedBy, NULL),
     createdAt |-> t]

\* Faulty variant of createAttendance: the record is built but never stored.
createAttendance_NotStored(att, ins, t) == att

\* Faulty variant of createAttendance: the record replaces the latest one
\* instead of being added under a fresh id.
createAttendance_Overwrite(att, ins, t) ==
    IF att = <<>>
    THEN Append(att, newAttendance(1, ins, t))
    ELSE [att EXCEPT ![Len(att)] = newAttendance(Len(att), ins, t)]

\* Faulty variant of createAttendance: the map is keyed by the pair
\* (sessionId, studentId), so a second record of a pair takes the place of the
\* first.
createAttendance_KeyedByPair(att, ins, t) ==
    LET same == { i \in 1..Len(att) : att[i].sessionId = ins.sessionId
                                        /\ att[i].studentId = ins.studentId }
    IN  IF same = {}
        THEN Append(att, newAttendance(Len(att) + 1, ins, t))
        ELSE [att EXCEPT ![Min(same)] = newAttendance(Min(same), ins, t)]

\* MemStorage.createAttendance: this.attendance.set(id, attendance) under a
\* fresh randomUUID, so the record is appended whatever the map holds.
createAttendance(att, ins, t) ==
    Append(att, newAttendance(Len(att) + 1, ins, t))

\* ---------------------------------------------------------------- routes

\* insertAttendanceSchema.parse: status must be in the column's enum.
insertAttendanceSchemaOk(body) ==
    body.status \in {"present", "absent", "manual"}

\* No attendance object (the handler's `attendance` local before the insert).
NoAttendance == newAttendance(0, [sessionId |-> UNDEFINED, studentId |-> UNDEFINED,
                    status |-> UNDEFINED, geofencingStatus |-> UNDEFINED,
                    latitude |-> UNDEFINED, longitude |-> UNDEFINED,
                    markedBy |-> UNDEFINED], 0)

\* Faulty variant of the token gate: the session of the matched record is not
\* compared with the requested one.
tokenRejected_NoSessionCheck(qrToken, sessionId) ==
    qrToken = NoToken

\* The token gate of POST /api/verify-qr:
\*   if (!qrToken || qrToken.sessionId !== sessionId) -> 400
tokenRejected(qrToken, sessionId) ==
    qrToken = NoToken \/ qrToken.sessionId # sessionId

\* existingAttendance.find(record => record.studentId === studentId)
alreadyMarked(existingAttendance, studentId) ==
    \E i \in 1..Len(existingAttendance) : existingAttendance[i].studentId = studentId

\* The object POST /api/verify-qr hands to storage.createAttendance.
verifyInsert(r) ==
    [sessionId |-> r.sessionId, studentId |-> r.studentId, status |-> "present",
     geofencingStatus |-> OrElse(r.loc.geofencingStatus, "unknown"),
     latitude |-> r.loc.latitude, longitude |-> r.loc.longitude,
     markedBy |-> NULL]

\* A request whose handler has returned: its response (the outcome and, on
\* success, the created record) and the pair it was about; the handler's other
\* locals are gone.
finished(r, outcome) ==
    [r EXCEPT !.pc = "done", !.outcome = outcome, !.token = UNDEFINED,
              !.loc = [latitude |-> UNDEFINED, longitude |-> UNDEFINED,
                       geofencingStatus |-> UNDEFINED],
              !.qrToken = NoToken, !.existingAttendance = <<>>]

\* POST /api/qr-tokens with this body:
\* storage.createQRToken(insertQRTokenSchema.parse(body)).
postQRToken(body) ==
    /\ received < MaxOps
    /\ qrTokens' = createQRToken(qrTokens, tokenCount + 1, body, now)
    /\ tokenCount' = tokenCount + 1
    /\ UNCHANGED <<now, attendance, reqs, posts, clientVars, auxVars>>

\* POST /api/qr-tokens from a client that asks for one of Lifetimes.
PostQRToken ==
    \E s \in Sessions, tk \in TokenStrings, life \in Lifetimes :
        postQRToken([sessionId |-> s, token |-> tk, expiresAt |-> now + life])

\* Lifetimes of the tokens of a session whose rotation overlaps: one rotation
\* interval and two.
OverlappingLifetimes == {ROTATION_INTERVAL, 2 * ROTATION_INTERVAL}

\* POST /api/qr-tokens for the tokens of one session, which may outlive the
\* issuance of the next one.
PostQRTokenOverlapping ==
    \E tk \in TokenStrings, life \in OverlappingLifetimes :
        postQRToken([sessionId |-> "A", token |-> tk, expiresAt |-> now + life])

\* POST /api/qr-tokens with any expiresAt the schema lets through.
PostQRTokenAnyExpiry ==
    \E body \in AnyExpiryBodies(now) : postQRToken(body)

\* DELETE /api/qr-tokens/cleanup
DeleteCleanup ==
    /\ qrTokens' = cleanupExpiredTokens(qrTokens, now)
    /\ qrTokens' # qrTokens
    /\ UNCHANGED <<now, tokenCount, attendance, reqs, posts, clientVars, auxVars>>

\* POST /api/attendance: parse the body, then storage.createAttendance; a body
\* the schema rejects is answered 400 and nothing is stored.
PostAttendance ==
    /\ received < MaxOps
    /\ \E body \in AttendanceBodies :
         attendance' = IF insertAttendanceSchemaOk(body)
                       THEN createAttendance(attendance, body, now)
                       ELSE attendance
    /\ posts' = posts + 1
    /\ UNCHANGED <<now, qrTokens, tokenCount, reqs, clientVars, auxVars>>

\* POST /api/verify-qr with this body, up to its first await: the body is
\* destructured and storage.getValidToken(token) is called (its body runs at
\* the call).
verifyQR(body) ==
    /\ received < MaxOps
    /\ reqs' = reqs (+) SetToBag({
            [pc |-> "awaitToken", sessionId |-> body.sessionId, token |-> body.token,
             studentId |-> body.studentId, loc |-> body.loc,
             qrToken |-> getValidToken(qrTokens, body.token, now),
             existingAttendance |-> <<>>, attendance |-> NoAttendance,
             outcome |-> "pending"]})
    /\ UNCHANGED <<now, qrTokens, tokenCount, attendance, posts, clientVars, auxVars>>

\* POST /api/verify-qr from a student's device.
VerifyQR ==
    \E s \in Sessions, tk \in TokenStrings, st \in Students :
        verifyQR([sessionId |-> s, token |-> tk, studentId |-> st,
                  loc |-> deviceLocation(st)])

\* POST /api/verify-qr with any JSON body: fields may be missing, and
\* geofencingStatus is whatever the sender wrote.
VerifyQRAnyBody ==
    \E body \in AnyVerifyBodies : verifyQR(body)

\* One request of the bag moves from r to r2.
step(r, r2) == (reqs (-) SetToBag({r})) (+) SetToBag({r2})

\* Faulty variant of VerifyTokenResult: the duplicate check comes before the
\* token gate.
VerifyTokenResult_DuplicateFirst(r) ==
    /\ r.pc = "awaitToken"
    /\ reqs' = step(r,
         IF alreadyMarked(getAttendance(attendance, r.sessionId), r.studentId)
         THEN finished(r, "duplicate")
         ELSE IF tokenRejected(r.qrToken, r.sessionId)
         THEN finished(r, "invalid-token")
         ELSE [r EXCEPT !.pc = "awaitAttendance",
                  !.existingAttendance = getAttendance(attendance, r.sessionId)])
    /\ UNCHANGED <<now, qrTokens, tokenCount, attendance, posts, clientVars, auxVars>>

\* ... resumed with qrToken: the token gate, then storage.getAttendance(sessionId)
\* is called and the handler awaits again.
VerifyTokenResult(r) ==
    /\ r.pc = "awaitToken"
    /\ reqs' = step(r,
         IF tokenRejected(r.qrToken, r.sessionId)
         THEN finished(r, "invalid-token")
         ELSE [r EXCEPT !.pc = "awaitAttendance",
                  !.existingAttendance = getAttendance(attendance, r.sessionId)])
    /\ UNCHANGED <<now, qrTokens, tokenCount, attendance, posts, clientVars, auxVars>>

\* ... resumed with existingAttendance: the duplicate check, then
\* storage.createAttendance(...) is called and the handler awaits again.
VerifyAttendanceResult(r) ==
    /\ r.pc = "awaitAttendance"
    /\ IF alreadyMarked(r.existingAttendance, r.studentId)
       THEN /\ reqs' = step(r, finished(r, "duplicate"))
            /\ UNCHANGED attendance
       ELSE /\ attendance' = createAttendance(attendance, verifyInsert(r), now)
            /\ reqs' = step(r,
                  [r EXCEPT !.pc = "awaitCreate", !.existingAttendance = <<>>,
                            !.attendance = newAttendance(Len(attendance) + 1,
                                               verifyInsert(r), now)])
    /\ UNCHANGED <<now, qrTokens, tokenCount, posts, clientVars, auxVars>>

\* Faulty variant of VerifyRespond: the token the request was verified
\* with is deleted on success.
VerifyRespond_Consuming(r) ==
    /\ r.pc = "awaitCreate"
    /\ reqs' = step(r, finished(r, "success"))
    /\ LET Other(tk) == tk.id # r.qrToken.id
       IN  qrTokens' = SelectSeq(qrTokens, Other)
    /\ UNCHANGED <<now, tokenCount, attendance, posts, clientVars, auxVars>>

\* ... resumed with the created record: res.json({message, attendance}).
VerifyRespond(r) ==
    /\ r.pc = "awaitCreate"
    /\ reqs' = step(r, finished(r, "success"))
    /\ UNCHANGED <<now, qrTokens, tokenCount, attendance, posts, clientVars, auxVars>>

\* ------------------------------------------------- sessions (server)

\* {...session, ...updates}: the fields of updates replace or extend those of
\* session.
spread(session, updates) ==
    [k \in DOMAIN session \cup DOMAIN updates |->
        IF k \in DOMAIN updates THEN updates[k] ELSE session[k]]

\* The n-th randomUUID() of createSession: the ids clients know as "A" and
\* "B" are those of the first two sessions.
sessionUUID(n) ==
    IF n = 1 THEN "A" ELSE IF n = 2 THEN "B" ELSE "S" \o ToString(n)

\* MemStorage.createSession: a fresh id, geofencingEnabled ?? true, isActive
\* true, createdAt now, endedAt null (the empty tuple; a Date is the tuple of
\* its instant).
createSession(all, insertSession, t) ==
    Append(all, [id |-> sessionUUID(Len(all) + 1),
                 facultyId |-> insertSession.facultyId,
                 geofencingEnabled |->
                     IF "geofencingEnabled" \in DOMAIN insertSession
                     THEN insertSession.geofencingEnabled ELSE TRUE,
                 isActive |-> TRUE, createdAt |-> t, endedAt |-> <<>>])

\* MemStorage.updateSession: the stored session is replaced by
\* {...session, ...updates}; an unknown id changes nothing.
updateSession(all, id, updates) ==
    [i \in 1..Len(all) |->
        IF all[i].id = id THEN spread(all[i], updates) ELSE all[i]]

\* Bodies of PATCH /api/sessions/:id at time t; the route hands req.body to
\* storage.updateSession as it comes.
SessionUpdates(t) ==
    { [isActive |-> FALSE, endedAt |-> <<t>>],
      [isActive |-> FALSE],
      [isActive |-> TRUE],
      [endedAt |-> <<t>>] }

\* Bodies of POST /api/sessions: f1 leaves geofencingEnabled to its default,
\* f2 switches it off.
SessionBodies ==
    { [facultyId |-> "f1"],
      [facultyId |-> "f2", geofencingEnabled |-> FALSE] }

\* POST /api/sessions
PostSession ==
    /\ Len(sessions) + 1 < MaxOps
    /\ \E body \in SessionBodies :
         sessions' = createSession(sessions, body, now)
    /\ UNCHANGED <<now, serverVars, clientVars, issuerVars, geoVars>>

\* PATCH /api/sessions/:id
PatchSession ==
    /\ \E i \in 1..Len(sessions), updates \in SessionUpdates(now) :
         sessions' = updateSession(sessions, sessions[i].id, updates)
    /\ sessions' # sessions
    /\ UNCHANGED <<now, serverVars, clientVars, issuerVars, geoVars>>

\* The clock advances.
Tick ==
    /\ now < MaxTime
    /\ now' = now + 1
    /\ UNCHANGED <<serverVars, clientVars, auxVars>>

\* ------------------------------------------------- geofence (client)

\* CAMPUS_BOUNDARIES: the centre in microdegrees, the radius in metres.
CAMPUS_CENTER_LAT == 12971600
CAMPUS_CENTER_LNG == 77594600
CAMPUS_RADIUS == 1000

\* latitude / longitude of useGeolocation before a position is known: null.
NoCoord == 999999999

\* NaN as a distance.
NaN == 2147483647

\* x <= y and x > y on JavaScript numbers: false when either is NaN.
lessEq(x, y) == x # NaN /\ y # NaN /\ x <= y
greater(x, y) == x # NaN /\ y # NaN /\ x > y

\* x === y on JavaScript numbers: NaN equals nothing, itself included.
strictEq(x, y) == x # NaN /\ y # NaN /\ x = y

\* The positions the modelled devices report, <<latitude, longitude>> in
\* microdegrees.  Each stands for one pair of doubles:
\*   the campus centre                       12.9716, 77.5946
\*   about 500 m north of it                 12.9761, 77.5946
\*   the last microdegree inside, north      12.980593, 77.5946
\*   the first microdegree outside, north    12.980594, 77.5946
\*   about 1500 m north                      12.9851, 77.5946
\*   next to the antipode of the centre      -12.97159996861835, -102.40540009555501
\*   a point east of Lake Baikal             51.0579, 115.3749
\*   its antipode                            -51.0579, -64.6251
\*   on the equator, south of the centre     0, 77.5946
\*   on the prime meridian, west of it       12.9716, 0
GeoPoints ==
    { <<12971600, 77594600>>, <<12976100, 77594600>>, <<12980593, 77594600>>,
      <<12980594, 77594600>>, <<12985100, 77594600>>, <<-12971600, -102405400>>,
      <<51057900, 115374900>>, <<-51057900, -64625100>>,
      <<0, 77594600>>, <<12971600, 0>> }

\* calculateDistance on GeoPoints, each ordered pair by itself: the value the
\* haversine expression of the source yields in double precision, in
\* centimetres rounded up (so that a comparison with a whole number of metres
\* is the comparison of the double).  Between antipodal points the sum `a`
\* may round to 1.0000000000000002: Math.sqrt(1 - a) is NaN and so are c and
\* R * c.
calculateDistance(lat1, lon1, lat2, lon2) ==
    LET args == <<lat1, lon1, lat2, lon2>>
    IN  CASE args = <<12971600, 77594600, 12971600, 77594600>> -> 0
          [] args = <<12971600, 77594600, 12976100, 77594600>> -> 50038
          [] args = <<12971600, 77594600, 12980593, 77594600>> -> 99998
          [] args = <<12971600, 77594600, 12980594, 77594600>> -> 100009
          [] args = <<12971600, 77594600, 12985100, 77594600>> -> 150114
          [] args = <<12971600, 77594600, -12971600, -102405400>> -> NaN
          [] args = <<12971600, 77594600, 51057900, 115374900>> -> 542637145
          [] args = <<12971600, 77594600, -51057900, -64625100>> -> 1458871535
          [] args = <<12971600, 77594600, 0, 77594600>> -> 144237612
          [] args = <<12971600, 77594600, 12971600, 0>> -> 836882104
          [] args = <<12976100, 77594600, 12971600, 77594600>> -> 50038
          [] args = <<12976100, 77594600, 12976100, 77594600>> -> 0
          [] args = <<12976100, 77594600, 12980593, 77594600>> -> 49960
          [] args = <<12976100, 77594600, 12980594, 77594600>> -> 49972
          [] args = <<12976100, 77594600, 12985100, 77594600>> -> 100076
          [] args = <<12976100, 77594600, -12971600, -102405400>> -> 2001458642
          [] args = <<12976100, 77594600, 51057900, 115374900>> -> 542594157
          [] args = <<12976100, 77594600, -51057900, -64625100>> -> 1458914523
          [] args = <<12976100, 77594600, 0, 77594600>> -> 144287649
          [] args = <<12976100, 77594600, 12971600, 0>> -> 836873219
          [] args = <<12980593, 77594600, 12971600, 77594600>> -> 99998
          [] args = <<12980593, 77594600, 12976100, 77594600>> -> 49960
          [] args = <<12980593, 77594600, 12980593, 77594600>> -> 0
          [] args = <<12980593, 77594600, 12980594, 77594600>> -> 12
          [] args = <<12980593, 77594600, 12985100, 77594600>> -> 50116
          [] args = <<12980593, 77594600, -12971600, -102405400>> -> 2001408682
          [] args = <<12980593, 77594600, 51057900, 115374900>> -> 542551237
          [] args = <<12980593, 77594600, -51057900, -64625100>> -> 1458957444
          [] args = <<12980593, 77594600, 0, 77594600>> -> 144337609
          [] args = <<12980593, 77594600, 12971600, 0>> -> 836864348
          [] args = <<12980594, 77594600, 12971600, 77594600>> -> 100009
          [] args = <<12980594, 77594600, 12976100, 77594600>> -> 49972
          [] args = <<12980594, 77594600, 12980593, 77594600>> -> 12
          [] args = <<12980594, 77594600, 12980594, 77594600>> -> 0
          [] args = <<12980594, 77594600, 12985100, 77594600>> -> 50105
          [] args = <<12980594, 77594600, -12971600, -102405400>> -> 2001408671
          [] args = <<12980594, 77594600, 51057900, 115374900>> -> 542551227
          [] args = <<12980594, 77594600, -51057900, -64625100>> -> 1458957453
          [] args = <<12980594, 77594600, 0, 77594600>> -> 144337620
          [] args = <<12980594, 77594600, 12971600, 0>> -> 836864346
          [] args = <<12985100, 77594600, 12971600, 77594600>> -> 150114
          [] args = <<12985100, 77594600, 12976100, 77594600>> -> 100076
          [] args = <<12985100, 77594600, 12980593, 77594600>> -> 50116
          [] args = <<12985100, 77594600, 12980594, 77594600>> -> 50105
          [] args = <<12985100, 77594600, 12985100, 77594600>> -> 0
          [] args = <<12985100, 77594600, -12971600, -102405400>> -> 2001358567
          [] args = <<12985100, 77594600, 51057900, 115374900>> -> 542508183
          [] args = <<12985100, 77594600, -51057900, -64625100>> -> 1459000497
          [] args = <<12985100, 77594600, 0, 77594600>> -> 144387725
          [] args = <<12985100, 77594600, 12971600, 0>> -> 836855450
          [] args = <<-12971600, -102405400, 12971600, 77594600>> -> NaN
          [] args = <<-12971600, -102405400, 12976100, 77594600>> -> 2001458642
          [] args = <<-12971600, -102405400, 12980593, 77594600>> -> 2001408682
          [] args = <<-12971600, -102405400, 12980594, 77594600>> -> 2001408671
          [] args = <<-12971600, -102405400, 12985100, 77594600>> -> 2001358567
          [] args = <<-12971600, -102405400, -12971600, -102405400>> -> 0
          [] args = <<-12971600, -102405400, 51057900, 115374900>> -> 1458871534
          [] args = <<-12971600, -102405400, -51057900, -64625100>> -> 542637146
          [] args = <<-12971600, -102405400, 0, 77594600>> -> 1857271069
          [] args = <<-12971600, -102405400, 12971600, 0>> -> 1164626577
          [] args = <<51057900, 115374900, 12971600, 77594600>> -> 542637145
          [] args = <<51057900, 115374900, 12976100, 77594600>> -> 542594157
          [] args = <<51057900, 115374900, 12980593, 77594600>> -> 542551237
          [] args = <<51057900, 115374900, 12980594, 77594600>> -> 542551227
          [] args = <<51057900, 115374900, 12985100, 77594600>> -> 542508183
          [] args = <<51057900, 115374900, -12971600, -102405400>> -> 1458871534
          [] args = <<51057900, 115374900, 51057900, 115374900>> -> 0
          [] args = <<51057900, 115374900, -51057900, -64625100>> -> NaN
          [] args = <<51057900, 115374900, 0, 77594600>> -> 669541512
          [] args = <<51057900, 115374900, 12971600, 0>> -> 1056822229
          [] args = <<-51057900, -64625100, 12971600, 77594600>> -> 1458871535
          [] args = <<-51057900, -64625100, 12976100, 77594600>> -> 1458914523
          [] args = <<-51057900, -64625100, 12980593, 77594600>> -> 1458957444
          [] args = <<-51057900, -64625100, 12980594, 77594600>> -> 1458957453
          [] args = <<-51057900, -64625100, 12985100, 77594600>> -> 1459000497
          [] args = <<-51057900, -64625100, -12971600, -102405400>> -> 542637146
          [] args = <<-51057900, -64625100, 51057900, 115374900>> -> NaN
          [] args = <<-51057900, -64625100, -51057900, -64625100>> -> 0
          [] args = <<-51057900, -64625100, 0, 77594600>> -> 1331967169
          [] args = <<-51057900, -64625100, 12971600, 0>> -> 944686452
          [] args = <<0, 77594600, 12971600, 77594600>> -> 144237612
          [] args = <<0, 77594600, 12976100, 77594600>> -> 144287649
          [] args = <<0, 77594600, 12980593, 77594600>> -> 144337609
          [] args = <<0, 77594600, 12980594, 77594600>> -> 144337620
          [] args = <<0, 77594600, 12985100, 77594600>> -> 144387725
          [] args = <<0, 77594600, -12971600, -102405400>> -> 1857271069
          [] args = <<0, 77594600, 51057900, 115374900>> -> 669541512
          [] args = <<0, 77594600, -51057900, -64625100>> -> 1331967169
          [] args = <<0, 77594600, 0, 77594600>> -> 0
          [] args = <<0, 77594600, 12971600, 0>> -> 866386531
          [] args = <<12971600, 0, 12971600, 77594600>> -> 836882104
          [] args = <<12971600, 0, 12976100, 77594600>> -> 836873219
          [] args = <<12971600, 0, 12980593, 77594600>> -> 836864348
          [] args = <<12971600, 0, 12980594, 77594600>> -> 836864346
          [] args = <<12971600, 0, 12985100, 77594600>> -> 836855450
          [] args = <<12971600, 0, -12971600, -102405400>> -> 1164626577
          [] args = <<12971600, 0, 51057900, 115374900>> -> 1056822229
          [] args = <<12971600, 0, -51057900, -64625100>> -> 944686452
          [] args = <<12971600, 0, 0, 77594600>> -> 866386531
          [] args = <<12971600, 0, 12971600, 0>> -> 0

\* useGeolocation.checkGeofence: inside iff distance <= radius.  Nothing in
\* the try block throws on numbers, so its catch (status 'unknown') is never
\* entered.
checkGeofence(lat, lng) ==
    LET distance == calculateDistance(lat, lng, CAMPUS_CENTER_LAT, CAMPUS_CENTER_LNG)
        isInsideCampus == lessEq(distance, CAMPUS_RADIUS * 100)
    IN  [isInsideCampus |-> isInsideCampus,
         status |-> IF isInsideCampus THEN "inside" ELSE "outside"]

\* calculateDistance is called on two positions.
CalculateDistance ==
    /\ \E P1 \in GeoPoints, P2 \in GeoPoints :
         measured' = <<[p1 |-> P1, p2 |-> P2,
                        distance |-> calculateDistance(P1[1], P1[2], P2[1], P2[2])]>>
    /\ UNCHANGED <<now, serverVars, clientVars, sessionVars, issuerVars, fenced, classified>>

\* checkGeofence is called on a position.
CheckGeofence ==
    /\ \E P \in GeoPoints :
         fenced' = <<[lat |-> P[1], lng |-> P[2], result |-> checkGeofence(P[1], P[2])]>>
    /\ UNCHANGED <<now, serverVars, clientVars, sessionVars, issuerVars, measured, classified>>

\* JavaScript truthiness of a number | null: null and 0 are falsy.
truthy(x) == x # NoCoord /\ x # 0

\* x?.toString() on number | null
optToString(x) == IF x = NoCoord THEN UNDEFINED ELSE ToString(x)

\* The position useGeolocation holds on each student's device: s1 has declined
\* location, s2 stands north of the campus, outside the radius.
devicePosition(st) ==
    IF st = "s1"
    THEN [latitude |-> NoCoord, longitude |-> NoCoord]
    ELSE [latitude |-> 12985100, longitude |-> 77594600]

\* ------------------------------------------------- Firestore (client)

\* The session each faculty dashboard has created and shows in LiveStats.
ownSession(f) == IF f = "f1" THEN "A" ELSE "B"

\* What the student's camera may decode: a payload for a session, one without
\* token, one without sessionId.
QRPayloads ==
    { [sessionId |-> s, token |-> "TK_1"] : s \in Sessions }
    \cup { [sessionId |-> "A", token |-> UNDEFINED],
           [sessionId |-> UNDEFINED, token |-> "TK_1"] }

\* handleDemoScan's payload.
demoQRData == [sessionId |-> "demo_session_123", token |-> "TK_1"]

\* Attempts the clients have started so far.
started == BagCardinality(writes) + BagCardinality(results)

\* setDoc refuses data holding an undefined field value (createdAt is always a
\* Timestamp).
setDocAccepts(data) ==
    \A k \in DOMAIN data \ {"createdAt"} : data[k] # UNDEFINED

\* firebase markAttendance: {...attendanceData, createdAt: Timestamp.now()}
\* goes to a new document of the collection.
markAttendanceData(attendanceData, t) ==
    [sessionId |-> attendanceData.sessionId,
     studentId |-> attendanceData.studentId,
     status |-> attendanceData.status,
     geofencingStatus |-> attendanceData.geofencingStatus,
     latitude |-> attendanceData.latitude,
     longitude |-> attendanceData.longitude,
     markedBy |-> attendanceData.markedBy,
     createdAt |-> t]

\* The document setDoc commits: the data under a fresh document id.
committed(col, data) ==
    Append(col, [id |-> Len(col) + 1, sessionId |-> data.sessionId,
                 studentId |-> data.studentId, status |-> data.status,
                 geofencingStatus |-> data.geofencingStatus,
                 latitude |-> data.latitude, longitude |-> data.longitude,
                 markedBy |-> data.markedBy, createdAt |-> data.createdAt])

\* Insert d into a sequence ordered by createdAt descending (ties: the later
\* document first).
RECURSIVE insertDesc(_, _)
insertDesc(d, sorted) ==
    IF sorted = <<>> THEN <<d>>
    ELSE IF d.createdAt >= Head(sorted).createdAt THEN <<d>> \o sorted
    ELSE <<Head(sorted)>> \o insertDesc(d, Tail(sorted))

RECURSIVE orderByCreatedAtDesc(_)
orderByCreatedAtDesc(docs) ==
    IF docs = <<>> THEN <<>>
    ELSE insertDesc(docs[Len(docs)], orderByCreatedAtDesc(SubSeq(docs, 1, Len(docs) - 1)))

\* subscribeToAttendance's query: where sessionId == s, orderBy createdAt desc.
attendanceQuery(col, s) ==
    LET OfSession(d) == d.sessionId = s
    IN  orderByCreatedAtDesc(SelectSeq(col, OfSession))

\* Faulty variant of manualInsert: the entry is not attributed to the faculty.
manualInsert_Unattributed(f, studentId, action) ==
    [sessionId |-> ownSession(f), studentId |-> studentId, status |-> "present",
     geofencingStatus |-> "unknown", latitude |-> NULL, longitude |-> NULL,
     markedBy |-> NULL]

\* The object onManualAttendance hands to markAttendance.
manualInsert(f, studentId, action) ==
    [sessionId |-> ownSession(f), studentId |-> studentId, status |-> action,
     geofencingStatus |-> "unknown", latitude |-> NULL, longitude |-> NULL,
     markedBy |-> f]

\* attendanceRecords.find(record => record.studentId === data.studentId)
existingRecord(attendanceRecords, studentId) ==
    \E i \in 1..Len(attendanceRecords) : attendanceRecords[i].studentId = studentId

\* processQRCode's geofencingStatus for the position the hook holds:
\*   'unknown' unless (latitude && longitude), then checkGeofence(...).status
scanStatus(pos) ==
    IF truthy(pos.latitude) /\ truthy(pos.longitude)
    THEN checkGeofence(pos.latitude, pos.longitude).status
    ELSE "unknown"

\* The positions a scanning device may hold: none yet, or one of GeoPoints.
ScanPositions ==
    { [latitude |-> NoCoord, longitude |-> NoCoord] }
    \cup { [latitude |-> P[1], longitude |-> P[2]] : P \in GeoPoints }

\* processQRCode classifies the position of the device.
ClassifyScan ==
    /\ \E pos \in ScanPositions :
         classified' = <<[pos |-> pos, status |-> scanStatus(pos)]>>
    /\ UNCHANGED <<now, serverVars, clientVars, sessionVars, issuerVars, measured, fenced>>

\* The object processQRCode hands to markAttendance.
scanInsert(st, parsedData) ==
    LET pos == devicePosition(st)
    IN  [sessionId |-> parsedData.sessionId, studentId |-> st, status |-> "present",
         geofencingStatus |-> scanStatus(pos),
         latitude |-> optToString(pos.latitude),
         longitude |-> optToString(pos.longitude),
         markedBy |-> NULL]

report(kind, client, s, st, outcome) ==
    SetToBag({[kind |-> kind, client |-> client, sessionId |-> s,
               studentId |-> st, outcome |-> outcome]})

\* The onSnapshot callback of LiveStats: setAttendanceRecords(records).
Snapshot(f) ==
    /\ liveStats[f].attendanceRecords # attendanceQuery(fsAttendance, ownSession(f))
    /\ liveStats' = [liveStats EXCEPT ![f].attendanceRecords =
                        attendanceQuery(fsAttendance, ownSession(f))]
    /\ UNCHANGED <<now, serverVars, auxVars, fsAttendance, isProcessing, writes, results>>

\* LiveStats.onManualAttendance up to its await: the check against the
\* subscribed list, then markAttendance is called.
ManualAttendance(f) ==
    /\ started < MaxOps
    /\ ~liveStats[f].isLoading
    /\ \E st \in Students, action \in {"present", "absent"} :
         IF existingRecord(liveStats[f].attendanceRecords, st)
         THEN /\ results' = results (+) report("manual", f, ownSession(f), st, "already-marked")
              /\ UNCHANGED <<writes, liveStats>>
         ELSE /\ writes' = writes (+) SetToBag({
                    [kind |-> "manual", client |-> f,
                     form |-> [studentId |-> st, action |-> action],
                     data |-> markAttendanceData(manualInsert(f, st, action), now)]})
              /\ liveStats' = [liveStats EXCEPT ![f].isLoading = TRUE]
              /\ UNCHANGED results
    /\ UNCHANGED <<now, serverVars, auxVars, fsAttendance, isProcessing>>

\* QRScanner.processQRCode(qrData) up to its await: the format check, the
\* geofence of the device position, then markAttendance is called; a payload
\* without sessionId or token, or data setDoc refuses, ends in "Scan Failed".
processQRCode(st, parsedData) ==
    IF parsedData.sessionId = UNDEFINED \/ parsedData.token = UNDEFINED
          \/ ~setDocAccepts(markAttendanceData(scanInsert(st, parsedData), now))
    THEN /\ results' = results (+) report("scan", st, parsedData.sessionId, st, "failed")
         /\ UNCHANGED <<writes, isProcessing>>
    ELSE /\ writes' = writes (+) SetToBag({
               [kind |-> "scan", client |-> st,
                form |-> [studentId |-> st, action |-> "present"],
                data |-> markAttendanceData(scanInsert(st, parsedData), now)]})
         /\ isProcessing' = isProcessing \cup {st}
         /\ UNCHANGED results

\* The scanner hands a decoded QR text to processQRCode.
ScanQRCode(st) ==
    /\ started < MaxOps
    /\ \E parsedData \in QRPayloads : processQRCode(st, parsedData)
    /\ UNCHANGED <<now, serverVars, auxVars, fsAttendance, liveStats>>

\* QRScanner.handleDemoScan (its button is disabled while isProcessing).
DemoScan(st) ==
    /\ started < MaxOps
    /\ st \notin isProcessing
    /\ processQRCode(st, demoQRData)
    /\ UNCHANGED <<now, serverVars, auxVars, fsAttendance, liveStats>>

\* setDoc is acknowledged: the document is in the collection and the caller
\* resumes after its await (success toast, loading flag cleared).  The
\* dashboard that wrote it has the document in its subscribed list by then:
\* its own listener is served from the local cache, pending writes included.
WriteAcknowledged(w) ==
    /\ fsAttendance' = committed(fsAttendance, w.data)
    /\ writes' = writes (-) SetToBag({w})
    /\ results' = results (+) report(w.kind, w.client, w.data.sessionId,
                                      w.data.studentId, "marked")
    /\ IF w.kind = "manual"
       THEN /\ liveStats' = [liveStats EXCEPT ![w.client] =
                    [attendanceRecords |->
                        insertDesc(fsAttendance'[Len(fsAttendance')],
                                   liveStats[w.client].attendanceRecords),
                     isLoading |-> FALSE]]
            /\ UNCHANGED isProcessing
       ELSE /\ isProcessing' = isProcessing \ {w.client}
            /\ UNCHANGED liveStats
    /\ UNCHANGED <<now, serverVars, auxVars>>

\* ------------------------------------------- token issuer (dashboard)

\* The dashboards that are open in a run.  Dashboards share nothing but the
\* collections, where each works on its own session.
Dashboards == {"f1"}

\* No document under this id in the sessions collection.
NoSessionDoc == [exists |-> FALSE, facultyId |-> UNDEFINED, subject |-> UNDEFINED,
                 branch |-> UNDEFINED, semester |-> 0, isActive |-> FALSE,
                 endedAt |-> <<>>, createdAt |-> <<>>]

\* What the faculty member enters in the session form.
sessionForm(f) ==
    IF f = "f1"
    THEN [subject |-> "Data Structures", branch |-> "CS", semester |-> 3]
    ELSE [subject |-> "Networks", branch |-> "EC", semester |-> 5]

\* subject.replace(/\s+/g, '') on the subjects of sessionForm
stripWhitespace(subject) ==
    IF subject = "Data Structures" THEN "DataStructures" ELSE subject

\* QRGenerator.generateQRToken at Date.now() = t:
\*   `TK_${timestamp}_${subject without whitespace}_${branch}_S${semester}`
generateQRToken(t, sessionData) ==
    "TK_" \o ToString(t) \o "_" \o stripWhitespace(sessionData.subject)
          \o "_" \o sessionData.branch \o "_S" \o ToString(sessionData.semester)

\* The props FacultyDashboard hands to QRGenerator:
\*   sessionId = activeSession?.id || '', isActive = !!activeSession, ...
qrProps(activeSession) ==
    IF activeSession = <<>>
    THEN [sessionId |-> "", isActive |-> FALSE,
          sessionData |-> [subject |-> "", branch |-> "", semester |-> 0]]
    ELSE [sessionId |-> activeSession[1].id, isActive |-> TRUE,
          sessionData |-> [subject |-> activeSession[1].subject,
                           branch |-> activeSession[1].branch,
                           semester |-> activeSession[1].semester]]

\* QRGenerator's rotation effect after a render of the dashboard.  sessionData
\* is a new object on every render, so the dependency list differs each time:
\* the cleanup clears the interval and the effect body runs again.  With
\* isActive it calls updateQR at once (a token is generated and its QR image
\* starts rendering) and arms a new interval; without, it returns.
rotationEffect(gen, props, t) ==
    IF props.isActive
    THEN [gen EXCEPT !.interval = <<t + ROTATION_INTERVAL>>,
                     !.rendering = @ \cup {generateQRToken(t, props.sessionData)}]
    ELSE [gen EXCEPT !.interval = <<>>]

\* No token generated yet.
NoIssue == [n |-> 0, sessionId |-> "", token |-> "", at |-> 0]

\* The record of a token generated under these props, after the one in last.
issue(last, props, t) ==
    [n |-> last.n + 1, sessionId |-> props.sessionId,
     token |-> generateQRToken(t, props.sessionData), at |-> t]

\* The dashboard of f renders with this activeSession: QRGenerator receives
\* its props and its effect runs.
render(f, activeSession) ==
    LET props == qrProps(activeSession)
    IN  /\ qrGenerator' = [qrGenerator EXCEPT ![f] = rotationEffect(@, props, now)]
        /\ lastIssued' = IF props.isActive
                         THEN [lastIssued EXCEPT ![f] = issue(@, props, now)]
                         ELSE lastIssued

\* FacultyDashboard.onCreateSession up to its await: createSession(...) is
\* called.  Each dashboard opens its session once.
CreateSession(f) ==
    /\ uiEvents + received < MaxOps
    /\ ~fsSessions[ownSession(f)].exists
    /\ ~dashboard[f].isCreatingSession
    /\ dashboard' = [dashboard EXCEPT ![f].isCreatingSession = TRUE]
    /\ uiEvents' = uiEvents + 1
    /\ UNCHANGED <<now, serverVars, clientVars, sessionVars, geoVars, fsSessions, qrGenerator, lastIssued>>

\* ... createSession resolves: the document {...sessionData, createdAt,
\* isActive: true} is in the collection, setActiveSession(newSession), and
\* the dashboard renders.
SessionCreated(f) ==
    /\ dashboard[f].isCreatingSession
    /\ LET form == sessionForm(f)
           newSession == [id |-> ownSession(f), subject |-> form.subject,
                          branch |-> form.branch, semester |-> form.semester,
                          isActive |-> TRUE]
       IN  /\ fsSessions' = [fsSessions EXCEPT ![ownSession(f)] =
                    [exists |-> TRUE, facultyId |-> f, subject |-> form.subject,
                     branch |-> form.branch, semester |-> form.semester,
                     isActive |-> TRUE, endedAt |-> <<>>, createdAt |-> <<now>>]]
           /\ dashboard' = [dashboard EXCEPT ![f].isCreatingSession = FALSE,
                                              ![f].activeSession = <<newSession>>]
           /\ render(f, <<newSession>>)
    /\ UNCHANGED <<now, serverVars, clientVars, sessionVars, geoVars, uiEvents>>

\* FacultyDashboard.handleEndSession up to its await:
\*   updateSession(activeSession.id, {isActive: false, endedAt: new Date()})
\* is called and the document changes.
EndSession(f) ==
    /\ uiEvents + received < MaxOps
    /\ dashboard[f].activeSession # <<>>
    /\ fsSessions' = [fsSessions EXCEPT ![dashboard[f].activeSession[1].id] =
                        spread(@, [isActive |-> FALSE, endedAt |-> <<now>>])]
    /\ dashboard' = [dashboard EXCEPT ![f].ending = @ + 1]
    /\ uiEvents' = uiEvents + 1
    /\ UNCHANGED <<now, serverVars, clientVars, sessionVars, geoVars, qrGenerator, lastIssued>>

\* ... updateSession resolves: setActiveSession(null), and the dashboard
\* renders without a session.
SessionEnded(f) ==
    /\ dashboard[f].ending > 0
    /\ dashboard' = [dashboard EXCEPT ![f].ending = @ - 1, ![f].activeSession = <<>>]
    /\ render(f, <<>>)
    /\ UNCHANGED <<now, serverVars, clientVars, sessionVars, geoVars, fsSessions, uiEvents>>

\* firebase updateSession(sessionId, {isActive: false}) from anywhere else
\* than this dashboard's End Session button.
DeactivateElsewhere(s) ==
    /\ uiEvents + received < MaxOps
    /\ fsSessions[s].exists /\ fsSessions[s].isActive
    /\ fsSessions' = [fsSessions EXCEPT ![s] = spread(@, [isActive |-> FALSE])]
    /\ uiEvents' = uiEvents + 1
    /\ UNCHANGED <<now, serverVars, clientVars, sessionVars, geoVars, dashboard, qrGenerator, lastIssued>>

\* The dashboard renders again while its session is shown: the attendance
\* subscription delivered records (setAttendanceRecords), the duration
\* string changed, or the session subscription delivered the document.
DashboardRender(f) ==
    /\ uiEvents + received < MaxOps
    /\ dashboard[f].activeSession # <<>>
    /\ render(f, dashboard[f].activeSession)
    /\ uiEvents' = uiEvents + 1
    /\ UNCHANGED <<now, serverVars, clientVars, sessionVars, geoVars, fsSessions, dashboard>>

\* The interval of the rotation effect fires: updateQR().  The callback
\* belongs to the render that armed it and uses that render's props.
IntervalFires(f) ==
    /\ qrGenerator[f].interval = <<now>>
    /\ LET props == qrProps(dashboard[f].activeSession)
       IN  /\ qrGenerator' = [qrGenerator EXCEPT
                  ![f].interval = <<now + ROTATION_INTERVAL>>,
                  ![f].rendering = @ \cup {generateQRToken(now, props.sessionData)}]
           /\ lastIssued' = [lastIssued EXCEPT ![f] = issue(@, props, now)]
    /\ UNCHANGED <<now, serverVars, clientVars, sessionVars, geoVars, fsSessions, dashboard, uiEvents>>

\* QRCode.toDataURL resolves in generateQRCode: setQrCodeUrl(qrUrl),
\* setCurrentToken(token).
QRCodeReady(f) ==
    /\ \E token \in qrGenerator[f].rendering :
         qrGenerator' = [qrGenerator EXCEPT ![f].rendering = @ \ {token},
                                            ![f].currentToken = token]
    /\ UNCHANGED <<now, serverVars, clientVars, sessionVars, geoVars, fsSessions, dashboard,
                   lastIssued, uiEvents>>

\* The token QRGenerator shows for session s, if any: the generator renders
\* the code only with isActive.
displayed(s) ==
    { qrGenerator[f].currentToken : f \in { g \in Faculty :
          /\ dashboard[g].activeSession # <<>>
          /\ dashboard[g].activeSession[1].id = s
          /\ qrGenerator[g].currentToken # "" } }

\* A student reads the displayed code and the device posts it to
\* /api/verify-qr.
VerifyDisplayed ==
    /\ uiEvents + received < MaxOps
    /\ \E s \in Sessions, st \in Students :
         \E tk \in displayed(s) :
            verifyQR([sessionId |-> s, token |-> tk, studentId |-> st,
                      loc |-> deviceLocation(st)])

\* The clock advances once every interval that is due has fired.
TickTimers ==
    /\ \A f \in Faculty : qrGenerator[f].interval # <<now>>
    /\ Tick

Init ==
    /\ now = 0
    /\ qrTokens = <<>>
    /\ tokenCount = 0
    /\ attendance = <<>>
    /\ reqs = EmptyBag
    /\ posts = 0
    /\ fsAttendance = <<>>
    /\ liveStats = [f \in Faculty |-> [attendanceRecords |-> <<>>, isLoading |-> FALSE]]
    /\ isProcessing = {}
    /\ writes = EmptyBag
    /\ results = EmptyBag
    /\ sessions = <<>>
    /\ fsSessions = [s \in Sessions |-> NoSessionDoc]
    /\ dashboard = [f \in Faculty |->
                       [activeSession |-> <<>>, isCreatingSession |-> FALSE, ending |-> 0]]
    /\ qrGenerator = [f \in Faculty |->
                         [interval |-> <<>>, rendering |-> {}, currentToken |-> ""]]
    /\ lastIssued = [f \in Faculty |-> NoIssue]
    /\ uiEvents = 0
    /\ measured = <<>>
    /\ fenced = <<>>
    /\ classified = <<>>

Next ==
    \/ Tick
    \/ PostQRToken
    \/ DeleteCleanup
    \/ PostAttendance
    \/ VerifyQR
    \/ \E r \in BagToSet(reqs) : VerifyTokenResult(r)
    \/ \E r \in BagToSet(reqs) : VerifyAttendanceResult(r)
    \/ \E r \in BagToSet(reqs) : VerifyRespond(r)

\* The server: MemStorage behind the routes.
Spec == Init /\ [][Next]_vars

NextClient ==
    \/ \E f \in Faculty : Snapshot(f)
    \/ \E f \in Faculty : ManualAttendance(f)
    \/ \E st \in Students : ScanQRCode(st)
    \/ \E st \in Students : DemoScan(st)
    \/ \E w \in BagToSet(writes) : WriteAcknowledged(w)

\* The faculty and student clients over Firestore, within one instant of the
\* clock: Timestamp.now() only stamps createdAt, and no client step depends on
\* its value.
SpecClient == Init /\ [][NextClient]_vars

NextSessions ==
    \/ Tick
    \/ PostSession
    \/ PatchSession

\* The session records of MemStorage behind their routes.
SpecSessions == Init /\ [][NextSessions]_vars

NextBodies ==
    \/ Tick
    \/ PostQRTokenAnyExpiry
    \/ VerifyQRAnyBody
    \/ \E r \in BagToSet(reqs) : VerifyTokenResult(r)
    \/ \E r \in BagToSet(reqs) : VerifyAttendanceResult(r)
    \/ \E r \in BagToSet(reqs) : VerifyRespond(r)

\* The token and verification routes under arbitrary request bodies.
SpecBodies == Init /\ [][NextBodies]_vars

NextTokens ==
    \/ Tick
    \/ PostQRTokenOverlapping
    \/ DeleteCleanup
    \/ VerifyQR
    \/ \E r \in BagToSet(reqs) : VerifyTokenResult(r)
    \/ \E r \in BagToSet(reqs) : VerifyAttendanceResult(r)
    \/ \E r \in BagToSet(reqs) : VerifyRespond(r)

\* The token store under issuance, expiry and cleanup, with the verifications
\* that read it.
SpecTokens == Init /\ [][NextTokens]_vars

NextOwned ==
    \/ PostSession
    \/ PostQRToken
    \/ PostAttendance
    \/ VerifyQR
    \/ \E r \in BagToSet(reqs) : VerifyTokenResult(r)
    \/ \E r \in BagToSet(reqs) : VerifyAttendanceResult(r)
    \/ \E r \in BagToSet(reqs) : VerifyRespond(r)

\* The session store next to the token and attendance stores, under the
\* routes that write them.
SpecOwned == Init /\ [][NextOwned]_vars

NextIssuer ==
    \/ TickTimers
    \/ \E f \in Dashboards : CreateSession(f)
    \/ \E f \in Dashboards : SessionCreated(f)
    \/ \E f \in Dashboards : EndSession(f)
    \/ \E f \in Dashboards : SessionEnded(f)
    \/ \E s \in Sessions : DeactivateElsewhere(s)
    \/ \E f \in Dashboards : DashboardRender(f)
    \/ \E f \in Dashboards : IntervalFires(f)
    \/ \E f \in Dashboards : QRCodeReady(f)
    \/ VerifyDisplayed
    \/ \E r \in BagToSet(reqs) : VerifyTokenResult(r)

\* The faculty dashboards with their QR generators, and the verification of
\* what they display.
SpecIssuer == Init /\ [][NextIssuer]_vars

NextGeo ==
    \/ CalculateDistance
    \/ CheckGeofence
    \/ ClassifyScan

\* The geofence functions applied to the modelled positions.
SpecGeo == Init /\ [][NextGeo]_vars

\* ------------------------------------------------------ claim vocabulary

\* The number of requests of the bag that satisfy Test.
countReqs(Test(_)) ==
    BagCardinality([r \in { x \in BagToSet(reqs) : Test(x) } |-> reqs[r]])

\* The records of the MemStorage attendance map for one (session, student).
recordsOf(s, st) ==
    { i \in 1..Len(attendance) :
        attendance[i].sessionId = s /\ attendance[i].studentId = st }

\* The request r has just been received in this step (VerifyQR appended it).
received_now(r) ==
    r.pc = "awaitToken" /\ CopiesIn(r, reqs') > CopiesIn(r, reqs)

\* One request went from r to r2 in this step.
moved(r, r2) ==
    r # r2 /\ CopiesIn(r, reqs) > CopiesIn(r, reqs')
           /\ CopiesIn(r2, reqs') > CopiesIn(r2, reqs)

\* The gate will let the request through (decided by its qrToken local).
gatePasses(r) == ~tokenRejected(r.qrToken, r.sessionId)

\* The token store holds a record for this session and string that is unexpired at t.
validTokenStored(tokens, s, tk, t) ==
    \E i \in 1..Len(tokens) :
        tokens[i].token = tk /\ tokens[i].sessionId = s /\ tokens[i].expiresAt > t

\* ---------------------------------------------------------------- claims

\* C1: for N >= 2 verification requests with the same sessionId and studentId
\* whose token passed the gate, once all of them have been answered (and no
\* other entry point wrote a record for the pair), exactly one has returned
\* success, the other N-1 have returned duplicate, and the store holds exactly
\* one record for the pair.
C1_ExactlyOneSuccess ==
    \A s \in Sessions, st \in Students :
        LET OfPair(r) == r.sessionId = s /\ r.studentId = st
            InFlight(r) == OfPair(r) /\ r.pc # "done"
            Success(r) == OfPair(r) /\ r.pc = "done" /\ r.outcome = "success"
            Duplicate(r) == OfPair(r) /\ r.pc = "done" /\ r.outcome = "duplicate"
            n == countReqs(Success) + countReqs(Duplicate)
            onlyVerifyWrote ==
                \A i \in recordsOf(s, st) :
                    \E r \in BagToSet(reqs) : r.attendance = attendance[i]
        IN  (countReqs(InFlight) = 0 /\ n >= 2 /\ onlyVerifyWrote)
                => /\ countReqs(Success) = 1
                   /\ countReqs(Duplicate) = n - 1
                   /\ Cardinality(recordsOf(s, st)) = 1

\* C2: the attendance store holds at most one record for each
\* (sessionId, studentId) pair.
C2_AtMostOneRecordPerPair ==
    \A s \in Sessions, st \in Students : Cardinality(recordsOf(s, st)) <= 1

\* C3: a verification request received at time now passes the token gate if
\* and only if the token store then holds a QRToken with the presented string,
\* the requested sessionId and expiresAt > now.
C3_GateIffValidTokenStored ==
    [][ \A r \in BagToSet(reqs') :
            received_now(r) =>
                (gatePasses(r) <=> validTokenStored(qrTokens, r.sessionId, r.token, now))
      ]_vars

\* C4: once the clock has reached the expiresAt of a token, no verification
\* presenting that token string passes the gate: no request is let through
\* while a record with its token string has expiresAt <= now.
C4_NoSuccessOnceStringExpired ==
    [][ \A r \in BagToSet(reqs') :
            (received_now(r) /\ gatePasses(r)) =>
                ~ \E i \in 1..Len(qrTokens) :
                      qrTokens[i].token = r.token /\ qrTokens[i].expiresAt <= now
      ]_vars

\* C5: a verification that got through the gate rests on a token record issued
\* for the requested session: the matched record carries the presented string
\* and the requested sessionId, also when the same string is stored for
\* another session, and the record written belongs to that session.
C5_TokenScopeIsolation ==
    \A r \in BagToSet(reqs) :
        r.pc \in {"awaitAttendance", "awaitCreate"} =>
            /\ r.qrToken # NoToken
            /\ r.qrToken.token = r.token
            /\ r.qrToken.sessionId = r.sessionId
            /\ r.pc = "awaitCreate" => r.attendance.sessionId = r.qrToken.sessionId

\* C5 witness: a request for session B is past the gate with a string that the
\* store also holds, unexpired, for session A.
C5_Witness ==
    \E r \in BagToSet(reqs) :
        /\ r.pc = "awaitCreate"
        /\ r.sessionId = "B"
        /\ validTokenStored(qrTokens, "A", r.token, now)

\* C6: every self-scan record (markedBy = null) was written by a verification
\* request after its token passed the gate for the record's session.
C6_SelfScanOnlyAfterValidation ==
    \A i \in 1..Len(attendance) :
        attendance[i].markedBy = NULL =>
            \E r \in BagToSet(reqs) :
                /\ r.attendance = attendance[i]
                /\ r.pc = "awaitCreate" \/ (r.pc = "done" /\ r.outcome = "success")

C8_VerifyFrame ==
    [][ /\ \A r \in BagToSet(reqs) :
              (r.pc = "done" /\ r.outcome \in {"duplicate", "invalid-token"})
                  => r.attendance = NoAttendance
        /\ \A r \in BagToSet(reqs), r2 \in BagToSet(reqs') :
              moved(r, r2) =>
                 /\ (r2.pc = "done" /\ r2.outcome \in {"duplicate", "invalid-token"})
                        => attendance' = attendance
                 /\ r2.pc = "awaitCreate"
                        => /\ Len(attendance') = Len(attendance) + 1
                           /\ SubSeq(attendance', 1, Len(attendance)) = attendance
                           /\ attendance'[Len(attendance')] = r2.attendance
                 /\ (r2.pc = "done" /\ r2.outcome = "success")
                        => /\ attendance' = attendance
                           /\ r.pc = "awaitCreate"
      ]_vars

\* C8 witness: one request has been rejected at the gate and another answered
\* success, and the store holds the one record of the latter.
C8_Witness ==
    /\ \E r \in BagToSet(reqs) : r.pc = "done" /\ r.outcome = "invalid-token"
    /\ \E r \in BagToSet(reqs) :
          r.pc = "done" /\ r.outcome = "success" /\ attendance = <<r.attendance>>

\* ------------------------------------------------- claims on the clients

\* The documents of the Firestore collection for one (session, student).
docsOf(s, st) ==
    { i \in 1..Len(fsAttendance) :
        fsAttendance[i].sessionId = s /\ fsAttendance[i].studentId = st }

\* The number of reported attempts that satisfy Test.
countResults(Test(_)) ==
    BagCardinality([x \in { y \in BagToSet(results) : Test(y) } |-> results[x]])

\* The write w has been acknowledged in this step.
acknowledged(w) == CopiesIn(w, writes) > CopiesIn(w, writes')

\* The write w has been issued in this step.
issued(w) == CopiesIn(w, writes') > CopiesIn(w, writes)

\* C9: when a manual override for a (session, student) pair and another
\* attempt for the same pair (a self-scan or a manual override) have both
\* finished, the collection holds exactly one record for the pair, one
\* attempt has reported success and every other one 'already marked'.
C9_OneRecordLoserAlreadyMarked ==
    \A s \in Sessions, st \in Students :
        LET OfPair(x) == x.sessionId = s /\ x.studentId = st
            Marked(x) == OfPair(x) /\ x.outcome = "marked"
            Already(x) == OfPair(x) /\ x.outcome = "already-marked"
            Manual(x) == OfPair(x) /\ x.kind = "manual"
            pending == \E w \in BagToSet(writes) : OfPair(w.data)
            n == countResults(Marked) + countResults(Already)
        IN  (~pending /\ n >= 2 /\ countResults(Manual) >= 1)
                => /\ Cardinality(docsOf(s, st)) = 1
                   /\ countResults(Marked) = 1
                   /\ countResults(Already) = n - 1

\* C10: a manual override for a student the session has no record of issues
\* one write, and its acknowledgement adds exactly one document to the
\* collection: the dashboard's session, the student, status = the chosen
\* action, geofencingStatus 'unknown', no latitude, no longitude, markedBy =
\* the faculty; no token is consulted or changed on the way.
C10_ManualOverrideRecord ==
    [][ /\ \A x \in BagToSet(results') :
              (/\ CopiesIn(x, results') > CopiesIn(x, results)
               /\ x.kind = "manual"
               /\ docsOf(x.sessionId, x.studentId) = {})
                  => x.outcome = "marked"
        /\ \A w \in BagToSet(writes') :
              (issued(w) /\ w.kind = "manual")
                  => /\ writes' = writes (+) SetToBag({w})
                     /\ fsAttendance' = fsAttendance
                     /\ w.data.studentId = w.form.studentId
        /\ \A w \in BagToSet(writes) :
              (acknowledged(w) /\ w.kind = "manual")
                  => /\ Len(fsAttendance') = Len(fsAttendance) + 1
                     /\ SubSeq(fsAttendance', 1, Len(fsAttendance)) = fsAttendance
                     /\ LET d == fsAttendance'[Len(fsAttendance')]
                        IN  /\ d.sessionId = ownSession(w.client)
                            /\ d.studentId = w.form.studentId
                            /\ d.status = w.form.action
                            /\ d.geofencingStatus = "unknown"
                            /\ d.latitude = NULL
                            /\ d.longitude = NULL
                            /\ d.markedBy = w.client
                     /\ qrTokens' = qrTokens
      ]_vars

\* C10 witness: with no token in any store, a faculty member has marked a
\* student absent by hand, and the collection holds that one record with no
\* coordinates.
C10_Witness ==
    /\ qrTokens = <<>>
    /\ \E f \in Faculty, st \in Students :
          /\ \E x \in BagToSet(results) :
                x.kind = "manual" /\ x.client = f /\ x.studentId = st /\ x.outcome = "marked"
          /\ \E i \in 1..Len(fsAttendance) :
                /\ docsOf(ownSession(f), st) = {i}
                /\ fsAttendance[i].status = "absent"
                /\ fsAttendance[i].markedBy = f
                /\ fsAttendance[i].latitude = NULL

\* ------------------------------------------------- claims on sessions

\* C11: for every session, isActive never goes from false back to true;
\* endedAt is set in the very step in which isActive becomes false, only
\* then, and never changes afterwards.
C11_SessionEndsOnce ==
    [][ \A id \in 1..Len(sessions) :
            LET old == sessions[id]
                new == sessions'[id]
            IN  /\ ~old.isActive => ~new.isActive
                /\ (old.isActive /\ ~new.isActive) => new.endedAt # <<>>
                /\ new.endedAt # old.endedAt
                       => (old.isActive /\ ~new.isActive /\ old.endedAt = <<>>)
      ]_vars

\* ------------------------------------------ claims on the token store

\* The unexpired token records of a session at time t.
liveTokens(tokens, s, t) ==
    { i \in 1..Len(tokens) : tokens[i].sessionId = s /\ tokens[i].expiresAt > t }

\* C12: every QRToken record of the store has expiresAt - createdAt equal to
\* the rotation interval, whichever request created it.
C12_LifetimeIsRotationInterval ==
    \A i \in 1..Len(qrTokens) :
        qrTokens[i].expiresAt - qrTokens[i].createdAt = ROTATION_INTERVAL

\* C20: at any time each session has at most one unexpired QRToken in the
\* store.
C20_OneLiveTokenPerSession ==
    \A s \in Sessions : Cardinality(liveTokens(qrTokens, s, now)) <= 1

\* ------------------------------------------ claims on the token issuer

\* The generator of f has generated a token in this step.
generated(f) == lastIssued'[f].n > lastIssued[f].n

\* C13: every token displayed for an active session is persisted as a QRToken
\* record of that session, and a verification request that presents the
\* displayed token with the session's id gets through the token gate.
C13_DisplayedTokenIsPersisted ==
    /\ \A s \in Sessions : \A tk \in displayed(s) :
          fsSessions[s].isActive =>
              \E i \in 1..Len(qrTokens) :
                  qrTokens[i].token = tk /\ qrTokens[i].sessionId = s
    /\ \A r \in BagToSet(reqs) :
          (r.pc = "awaitToken" /\ r.token \in displayed(r.sessionId)
              /\ fsSessions[r.sessionId].isActive)
              => gatePasses(r)

\* C14: no token is generated for a session whose record has isActive false,
\* and none becomes the token the dashboard shows for it either, also when
\* its generation had started before the session ended.
C14_NoTokenAfterEnd ==
    [][ \A f \in Faculty :
            /\ generated(f) => fsSessions'[lastIssued'[f].sessionId].isActive
            /\ (/\ qrGenerator'[f].currentToken # qrGenerator[f].currentToken
                /\ dashboard'[f].activeSession # <<>>)
                   => fsSessions'[dashboard'[f].activeSession[1].id].isActive
      ]_vars

\* C19: while a session is shown as active its interval stays armed, and
\* every token generated for a session after an earlier one comes exactly one
\* rotation interval after it, whatever else happens in between.
C19_FixedCadence ==
    [][ \A f \in Faculty :
            /\ dashboard'[f].activeSession # <<>> => qrGenerator'[f].interval # <<>>
            /\ (generated(f) /\ lastIssued[f].n > 0
                    /\ lastIssued'[f].sessionId = lastIssued[f].sessionId)
                   => lastIssued'[f].at = lastIssued[f].at + ROTATION_INTERVAL
      ]_vars

\* ------------------------------------- claims on verification bodies

\* C18: a verification request without sessionId, token or studentId is
\* rejected at the token gate at the latest: it never waits on the duplicate
\* check or the insert, and no attendance record lacks its session or student.
C18_MalformedRejectedBeforeMarking ==
    /\ \A r \in BagToSet(reqs) :
          (r.pc # "done" /\ UNDEFINED \in {r.sessionId, r.token, r.studentId})
              => r.pc = "awaitToken"
    /\ \A i \in 1..Len(attendance) :
          attendance[i].sessionId # UNDEFINED /\ attendance[i].studentId # UNDEFINED

\* C16: a self-marked record without coordinates has geofencingStatus
\* unknown.
C16_AbsentCoordinatesStoredUnknown ==
    \A i \in 1..Len(attendance) :
        (/\ attendance[i].markedBy = NULL
         /\ attendance[i].latitude = NULL
         /\ attendance[i].longitude = NULL)
            => attendance[i].geofencingStatus = "unknown"

\* ------------------------------------------------ claims on the geofence

\* C17: calculateDistance(P1, P2) is a number that is not negative, equals
\* calculateDistance(P2, P1), and is 0 when P1 and P2 are the same point.
C17_DistanceSymmetricNonNegative ==
    measured # <<>> =>
        LET m == measured[1]
        IN  /\ m.distance # NaN /\ m.distance >= 0
            /\ strictEq(m.distance, calculateDistance(m.p2[1], m.p2[2], m.p1[1], m.p1[2]))
            /\ m.p1 = m.p2 => m.distance = 0

\* C15: checkGeofence answers inside exactly when the distance to the centre
\* is <= 1000 m, outside exactly when it is > 1000 m, and isInsideCampus
\* exactly when the status is inside.
C15_InsideIffWithinRadius ==
    fenced # <<>> =>
        LET f == fenced[1]
            distance == calculateDistance(f.lat, f.lng, CAMPUS_CENTER_LAT, CAMPUS_CENTER_LNG)
        IN  /\ f.result.status = "inside" <=> lessEq(distance, CAMPUS_RADIUS * 100)
            /\ f.result.status = "outside" <=> greater(distance, CAMPUS_RADIUS * 100)
            /\ f.result.isInsideCampus <=> f.result.status = "inside"

\* ------------------------------------------- claims on the token store

\* The record the gate of a verification for (s, tk) at time t rests on, or
\* NoToken when the gate rejects.
gateRecord(tokens, s, tk, t) ==
    LET q == getValidToken(tokens, tk, t)
    IN  IF tokenRejected(q, s) THEN NoToken ELSE q

\* C21: a record that validates (s, tk) keeps validating it in every next
\* state in which it has not reached its expiresAt, whatever tokens are issued
\* meanwhile; in particular the issuance of a token changes the validation of
\* no pair that validated before.
C21_IssuanceKeepsEarlierValid ==
    [][ \A s \in Sessions, tk \in TokenStrings :
            LET q == gateRecord(qrTokens, s, tk, now)
            IN  (q # NoToken /\ q.expiresAt > now')
                    => gateRecord(qrTokens', s, tk, now') = q
      ]_vars

\* C21 witness: a token of a session was issued at an earlier instant than
\* the latest token of the same session, with another string, and a request
\* presenting the earlier one is past the gate while both are stored
\* unexpired.
C21_Witness ==
    \E i, j \in 1..Len(qrTokens) :
        /\ qrTokens[i].sessionId = qrTokens[j].sessionId
        /\ qrTokens[i].token # qrTokens[j].token
        /\ qrTokens[i].createdAt < qrTokens[j].createdAt
        /\ qrTokens[i].expiresAt > now /\ qrTokens[j].expiresAt > now
        /\ \E r \in BagToSet(reqs) :
              /\ r.pc = "awaitAttendance"
              /\ r.qrToken = qrTokens[i]

\* C22: no two QRToken records of the store share a token string.
C22_TokenStringsUnique ==
    \A i, j \in 1..Len(qrTokens) :
        i # j => qrTokens[i].token # qrTokens[j].token

\* C23: a cleanup removes exactly the records with expiresAt <= now, keeps the
\* others as they are and in their order, and changes the validation of no
\* (sessionId, token string) at any time from now on.
C23_CleanupRemovesExactlyExpired ==
    [][ (tokenCount' = tokenCount /\ qrTokens' # qrTokens) =>
            LET Live(tk) == tk.expiresAt > now
            IN  /\ qrTokens' = SelectSeq(qrTokens, Live)
                /\ \A s \in Sessions, tk \in TokenStrings, t \in now..(MaxTime + 2) :
                      gateRecord(qrTokens', s, tk, t) = gateRecord(qrTokens, s, tk, t)
      ]_vars

\* C23 witness: a cleanup has removed a record, the store still holds an
\* unexpired one, and a request is past the gate on it.
C23_Witness ==
    /\ Len(qrTokens) < tokenCount
    /\ \E i \in 1..Len(qrTokens) :
          /\ qrTokens[i].expiresAt > now
          /\ \E r \in BagToSet(reqs) :
                r.pc = "awaitAttendance" /\ r.qrToken = qrTokens[i]

\* --------------------------------------- claims on the attendance store

\* C24: every step leaves each stored attendance record in the store with
\* the field values it has; records are only added.
C24_RecordsNeverChange ==
    [][ /\ Len(attendance') >= Len(attendance)
        /\ \A i \in 1..Len(attendance) : attendance'[i] = attendance[i]
      ]_vars

\* C24 witness: a second record has been written for the pair of an earlier
\* record, at a later instant, and the earlier one is still there.
C24_Witness ==
    \E i, j \in 1..Len(attendance) :
        /\ i < j
        /\ attendance[i].sessionId = attendance[j].sessionId
        /\ attendance[i].studentId = attendance[j].studentId
        /\ attendance[i].createdAt < attendance[j].createdAt

\* ------------------------------------ claims on sessions and their records

\* The stored sessions with this id.
sessionsWithId(id) == { k \in 1..Len(sessions) : sessions[k].id = id }

\* C27: a self-scan record of a session whose geofencingEnabled is false has
\* geofencingStatus unknown.
C27_GeofencingDisabledMeansUnknown ==
    \A i \in 1..Len(attendance) :
        (/\ attendance[i].markedBy = NULL
         /\ \E k \in sessionsWithId(attendance[i].sessionId) :
               ~sessions[k].geofencingEnabled)
            => attendance[i].geofencingStatus = "unknown"

\* C28: the sessionId of every stored QRToken and of every stored attendance
\* record is the id of a stored session.
C28_RecordsBelongToSessions ==
    /\ \A i \in 1..Len(qrTokens) : sessionsWithId(qrTokens[i].sessionId) # {}
    /\ \A i \in 1..Len(attendance) : sessionsWithId(attendance[i].sessionId) # {}

\* ------------------------------------ claims on the stored geofence status

\* The decimal strings the modelled devices send as coordinates, in
\* microdegrees.
parseDecimal(str) ==
    CASE str = "12.9716" -> 12971600
      [] str = "77.5946" -> 77594600

\* The classification of stored coordinates: unknown without coordinates,
\* otherwise checkGeofence's status.
classify(latitude, longitude) ==
    IF latitude = NULL \/ longitude = NULL
    THEN "unknown"
    ELSE checkGeofence(parseDecimal(latitude), parseDecimal(longitude)).status

\* C25: the geofencingStatus of every self-scan record is the classification
\* of the coordinates stored in the same record.
C25_StatusIsClassificationOfStoredCoordinates ==
    \A i \in 1..Len(attendance) :
        attendance[i].markedBy = NULL =>
            attendance[i].geofencingStatus =
                classify(attendance[i].latitude, attendance[i].longitude)

\* C26: a scan with both coordinates present, 0 included, is classified
\* inside or outside as checkGeofence decides for the position, never unknown.
C26_PresentCoordinatesAreClassified ==
    classified # <<>> =>
        LET pos == classified[1].pos
        IN  (pos.latitude # NoCoord /\ pos.longitude # NoCoord)
                => /\ classified[1].status \in {"inside", "outside"}
                   /\ classified[1].status =
                          checkGeofence(pos.latitude, pos.longitude).status

\* ------------------------------------- claims on the verification order

\* C29: the token gate decides first.  A request the gate rejects is answered
\* invalid-token whether or not its student has a record; a request the gate
\* lets through reads the session's records, and is answered duplicate when
\* its student has one; duplicate is the answer of no other request.
C29_TokenDecisionFirst ==
    [][ \A r \in BagToSet(reqs), r2 \in BagToSet(reqs') :
            moved(r, r2) =>
               /\ r2.outcome = "duplicate"
                      => (r.pc = "awaitAttendance" /\ gatePasses(r))
               /\ (r.pc = "awaitToken" /\ ~gatePasses(r))
                      => r2.outcome = "invalid-token"
               /\ (r.pc = "awaitToken" /\ gatePasses(r))
                      => /\ r2.pc = "awaitAttendance"
                         /\ recordsOf(r.sessionId, r.studentId) # {}
                                => alreadyMarked(r2.existingAttendance, r.studentId)
               /\ (r.pc = "awaitAttendance"
                      /\ alreadyMarked(r.existingAttendance, r.studentId))
                      => r2.outcome = "duplicate"
      ]_vars

\* C29 witness: a request has been answered invalid-token for a pair that has
\* a record, while no token was ever stored.
C29_Witness ==
    /\ tokenCount = 0
    /\ \E r \in BagToSet(reqs) :
          /\ r.pc = "done" /\ r.outcome = "invalid-token"
          /\ recordsOf(r.sessionId, r.studentId) # {}

\* C30: no step of a verification request changes the token store, and the
\* record a request got through the gate with stays in the store while it is
\* unexpired: it is there for the next student.
C30_ValidationKeepsToken ==
    [][ /\ reqs' # reqs => (qrTokens' = qrTokens /\ tokenCount' = tokenCount)
        /\ \A r \in BagToSet(reqs') :
              (r.pc \in {"awaitAttendance", "awaitCreate"} /\ r.qrToken.expiresAt > now')
                  => \E i \in 1..Len(qrTokens') : qrTokens'[i] = r.qrToken
      ]_vars

\* C30 witness: with one token ever stored, two students have been answered
\* success for its session, their records written at different instants.
C30_Witness ==
    /\ tokenCount = 1
    /\ \E r1, r2 \in BagToSet(reqs) :
          /\ r1.pc = "done" /\ r1.outcome = "success"
          /\ r2.pc = "done" /\ r2.outcome = "success"
          /\ r1.studentId # r2.studentId
          /\ r1.sessionId = r2.sessionId
          /\ r1.attendance.createdAt < r2.attendance.createdAt

====
